---------------------------- MODULE Spec2Model ----------------------------
(***************************************************************************)
(* A state-machine model of src/src/decrypt.py: decrypt_files_in_directory *)
(* (the access gate, the key recovery, the per-file decrypt loop and the   *)
(* try/except/finally bracket around them) and decrypt_file.               *)
(*                                                                         *)
(* One action per statement (or group of statements) of the function; the  *)
(* program counter pc carries the line number of the statement that runs   *)
(* next.  Collaborators imported from utils are not part of the source:    *)
(* their results are inputs drawn with \E, and any of their calls inside   *)
(* the try body may raise.                                                 *)
(***************************************************************************)
EXTENDS Integers, Sequences, FiniteSets, TLC

(***************************************************************************)
(* Bounds and program constants                                            *)
(***************************************************************************)
\* number of base names (a, b, ...) a vault directory holds files for
NumFiles == 2

\* the literal 3 of "while attempts < 3" / "if attempts < 3"
MaxAttempts == 3

BaseNames == <<"a", "b", "c", "d">>

Bases == {BaseNames[i] : i \in 1..NumFiles}

(***************************************************************************)
(* File names and file contents                                            *)
(*                                                                         *)
(* A name is the sequence of its dot-separated parts: report.txt.enc.tag   *)
(* with base "a" is <<"a", "enc", "tag">>.  The string operations of the   *)
(* loop (endswith, [:-4], + ".enc.tag") are modelled on these sequences.   *)
(***************************************************************************)
KeysDir == <<"keys_ivs">>

\* os.path.join(directory, 'keys_ivs', 'encrypted_keys_ivs.bin'): a path
\* below the directory, not an entry of it
KeysFile == <<"keys_ivs/encrypted_keys_ivs.bin">>

PlainName(b) == <<b>>

EncName(b) == <<b, "enc">>

TagName(b) == <<b, "enc", "tag">>

NonceName(b) == <<b, "enc", "nonce">>

NamesOf(b) == {PlainName(b), EncName(b), TagName(b), NonceName(b)}

TopNames == UNION {NamesOf(b) : b \in Bases} \cup {KeysDir}

Names == TopNames \cup {KeysFile}

\* "absent": no such entry.  "dir": a subdirectory.  "old": a file that was
\* there before the run and is no vault artifact.  "empty": a file just
\* created or truncated by open(.., 'wb').  "plain": the plaintext sealed in
\* "ct".  "ct_flip"/"tag_flip": a ciphertext / a tag with a flipped bit.
\* "tag_short": a tag file of fewer than 16 bytes.  "ct_locked": a
\* ciphertext the process may not read.  "ct_dangling": a symbolic link
\* whose target is gone.
Contents ==
  {"absent", "dir", "old", "empty", "plain", "ct", "ct_flip", "ct_locked",
   "ct_dangling", "tag", "tag_flip", "tag_short", "nonce", "blob"}

\* What a directory may hold for one base name before the run.  Names follow
\* the vault layout: a base, base.enc and its two sidecars; no base name
\* itself ends in .enc, so no file's base path is another file's artifact.
Profiles ==
  { [p |-> "absent", c |-> "absent",      t |-> "absent",    n |-> "absent"],
    [p |-> "old",    c |-> "absent",      t |-> "absent",    n |-> "absent"],
    [p |-> "absent", c |-> "ct",          t |-> "tag",       n |-> "nonce"],
    [p |-> "old",    c |-> "ct",          t |-> "tag",       n |-> "nonce"],
    [p |-> "absent", c |-> "ct_flip",     t |-> "tag",       n |-> "nonce"],
    [p |-> "absent", c |-> "ct",          t |-> "tag_flip",  n |-> "nonce"],
    [p |-> "absent", c |-> "ct",          t |-> "tag_short", n |-> "nonce"],
    [p |-> "absent", c |-> "ct",          t |-> "absent",    n |-> "nonce"],
    [p |-> "absent", c |-> "ct",          t |-> "tag",       n |-> "absent"],
    [p |-> "absent", c |-> "ct_locked",   t |-> "tag",       n |-> "nonce"],
    [p |-> "absent", c |-> "ct_dangling", t |-> "tag",       n |-> "nonce"],
    [p |-> "absent", c |-> "dir",         t |-> "absent",    n |-> "absent"] }

\* The directory built from one profile per base name and the key blob.
MkFs(assign, blob) ==
  [x \in Names |->
     IF x = KeysFile THEN blob
     ELSE IF x = KeysDir THEN "dir"
     ELSE LET b == x[1]
              pr == assign[b]
          IN  IF x = PlainName(b) THEN pr.p
              ELSE IF x = EncName(b) THEN pr.c
              ELSE IF x = TagName(b) THEN pr.t
              ELSE pr.n]

\* Every top-level name, in the order os.listdir reports the entries.  The
\* order os.listdir uses is arbitrary; Init gives every profile to every
\* base name, so each order of the files' conditions occurs.
NameOrder ==
  [k \in 1..(4 * NumFiles + 1) |->
     IF k = 4 * NumFiles + 1 THEN KeysDir
     ELSE LET b == BaseNames[((k - 1) \div 4) + 1]
              e == (k - 1) % 4
          IN  IF e = 0 THEN EncName(b)
              ELSE IF e = 1 THEN NonceName(b)
              ELSE IF e = 2 THEN TagName(b)
              ELSE PlainName(b)]

\* os.path.exists(path)
Exists(f, path) == path \in DOMAIN f /\ f[path] \notin {"absent"}

\* os.listdir(directory)
ListDir(f) == SelectSeq(NameOrder, LAMBDA x : Exists(f, x))

\* os.path.isdir(file_path)
IsDir(f, path) == f[path] = "dir"

\* filename.endswith(".enc")
EndsWithEnc(filename) == filename[Len(filename)] = "enc"

\* base_file_path = file_path[:-4] if filename.endswith('.enc') else file_path
BaseFilePath(filename) ==
  IF EndsWithEnc(filename) THEN SubSeq(filename, 1, Len(filename) - 1)
  ELSE filename

\* tag_file_path = base_file_path + ".enc.tag"
TagFilePath(filename) == BaseFilePath(filename) \o <<"enc", "tag">>

\* nonce_file_path = base_file_path + ".enc.nonce"
NonceFilePath(filename) == BaseFilePath(filename) \o <<"enc", "nonce">>

\* the three source artifacts of an encrypted file
Artifacts(filename) ==
  {filename, TagFilePath(filename), NonceFilePath(filename)}

(***************************************************************************)
(* Pure functions of the source                                            *)
(***************************************************************************)
\* open(file_path, 'rb'): the exception it raises, or "none"
OpenForRead(f, path) ==
  IF f[path] \in {"absent", "ct_dangling"} THEN "FileNotFoundError"
  ELSE IF f[path] = "ct_locked" THEN "PermissionError"
  ELSE IF f[path] = "dir" THEN "IsADirectoryError"
  ELSE "none"

\* Cipher(algorithms.AES(aes_key), modes.GCM(nonce, tag)): the exception the
\* constructors raise, or "none".  GCM rejects a tag shorter than 16 bytes;
\* AES rejects a key that is not bytes.
CipherInit(aes_key, tag, nonce) ==
  IF aes_key = "None" THEN "TypeError"
  ELSE IF tag = "tag_short" THEN "ValueError"
  ELSE "none"

\* decryptor.update(ciphertext) + decryptor.finalize(): the plaintext when
\* the tag authenticates the ciphertext under the key and nonce, and
\* InvalidTag (here "None" after the except of lines 57-59) otherwise.
GcmDecrypt(ciphertext, aes_key, tag, nonce) ==
  IF ciphertext = "ct" /\ aes_key = "dek" /\ tag = "tag" /\ nonce = "nonce"
  THEN "plain"
  ELSE "None"

\* decrypt_file(file_path, aes_key, iv, tag, nonce): iv is not used.
\* raised: the exception that leaves the function; data: the value returned.
decrypt_file(f, file_path, aes_key, iv, tag, nonce) ==
  IF OpenForRead(f, file_path) # "none"
  THEN [raised |-> OpenForRead(f, file_path), data |-> "None"]
  ELSE IF CipherInit(aes_key, tag, nonce) # "none"
  THEN [raised |-> CipherInit(aes_key, tag, nonce), data |-> "None"]
  ELSE [raised |-> "none", data |-> GcmDecrypt(f[file_path], aes_key, tag, nonce)]

\* the condition of the while (line 80) and of the if of line 173
AttemptsRemain_off_by_one(a) == a <= MaxAttempts

AttemptsRemain(a) == a < MaxAttempts

\* open(.., 'rb') of line 88 leaves the file as it is; 'wb' creates or
\* truncates it
KeysFileMode_wb == "wb"

KeysFileMode == "rb"

\* the file system after open(path, mode)
AfterOpen(f, path, mode) ==
  IF mode = "wb" THEN [f EXCEPT ![path] = "empty"] ELSE f

(***************************************************************************)
(* Collaborators (utils): modelled from their interface                    *)
(***************************************************************************)
CorrectPassword == "correct-password"

Passwords == {"correct-password", "wrong-password"}

PasswordHash(p) == IF p = CorrectPassword THEN "hash-1" ELSE "hash-2"

\* check_password(stored_hash, account_password)
check_password(h, p) == h = PasswordHash(p)

\* get_stored_salt(): the salt the vault was set up with, or another one (the
\* stored salt was regenerated or replaced since)
VaultSalt == "salt-1"

Salts == {"salt-1", "salt-2"}

\* derive_key(password, salt, 100000, 32): the key-encryption key; "kek-1" is
\* the one the main key of the vault is wrapped under
derive_key(p, salt) ==
  IF p = CorrectPassword /\ salt = VaultSalt THEN "kek-1" ELSE "kek-2"

\* wipe_encrypted_files(directory): every *.enc artifact is removed
wipe_encrypted_files(f) ==
  [x \in Names |->
     IF x \in TopNames /\ Len(x) >= 2 /\ x[2] = "enc" /\ f[x] # "dir"
     THEN "absent" ELSE f[x]]

(***************************************************************************)
(* State                                                                   *)
(***************************************************************************)
VARIABLES
  pc,                \* the statement that runs next
  marker,            \* the recovery marker of (decrypt, directory) exists
  sigint_handler,    \* the SIGINT handler of line 67 is installed
  wipe_setting,      \* security_settings['wipe_files_after_max_attempts']
  stored_hash,       \* get_stored_password_hash()
  attempts,          \* the attempt counter
  account_password,  \* the password last submitted
  derived_key,       \* derive_key(...)
  main_key,          \* prompt_for_main_key(...)
  aes_key,           \* the key decrypt_aes_key_and_iv returned
  animation_thread,  \* the local of that name: "None" or "thread"
  animating,         \* the loading animation is running
  fs,                \* the directory: name -> contents
  listing,           \* os.listdir(directory), taken once at line 106
  idx,               \* entries of listing the for loop has taken
  filename,          \* the loop variable
  tag,               \* bytes read from the tag file
  nonce,             \* bytes read from the nonce file
  decrypted_data,    \* what decrypt_file returned
  exiting,           \* SystemExit(1) is propagating
  \* history, not program state
  fs0,               \* the directory as it was when the run began
  prompts,           \* number of password prompts issued
  gate,              \* AwaitingPassword, Unlocked, Locked
  wiped,             \* wipe_encrypted_files was invoked
  caught,            \* the exception the handler of line 186 caught
  raised_by,         \* what raised it: "file", "keys", "collaborator"
  endkind,           \* how the try body was left
  opened,            \* names the loop opened for reading
  visited,           \* entries the for loop has taken
  skipped,           \* entries skipped for a missing sidecar
  failed,            \* entries for which decrypt_file returned None
  written,           \* entries whose plaintext was written in full
  erase_errors       \* entries whose secure_delete raised

vars ==
  <<pc, marker, sigint_handler, wipe_setting, stored_hash, attempts,
    account_password, derived_key, main_key, aes_key, animation_thread,
    animating, fs, listing, idx, filename, tag, nonce, decrypted_data,
    exiting, fs0, prompts, gate, wiped, caught, raised_by, endkind, opened,
    visited, skipped, failed, written, erase_errors>>

Init ==
  /\ pc = "L65_create_temp_state"
  /\ marker = FALSE
  /\ sigint_handler = FALSE
  /\ wipe_setting = FALSE
  /\ stored_hash = "unset"
  /\ attempts = 0
  /\ account_password = "unset"
  /\ derived_key = "unset"
  /\ main_key = "unset"
  /\ aes_key = "unset"
  /\ animation_thread = "None"
  /\ animating = FALSE
  /\ \E assign \in [Bases -> Profiles], blob \in {"absent", "blob"} :
       fs = MkFs(assign, blob)
  /\ fs0 = fs
  /\ listing = <<>>
  /\ idx = 0
  /\ filename = <<>>
  /\ tag = "unset"
  /\ nonce = "unset"
  /\ decrypted_data = "unset"
  /\ exiting = FALSE
  /\ prompts = 0
  /\ gate = "AwaitingPassword"
  /\ wiped = FALSE
  /\ caught = "none"
  /\ raised_by = "none"
  /\ endkind = "running"
  /\ opened = {}
  /\ visited = {}
  /\ skipped = {}
  /\ failed = {}
  /\ written = {}
  /\ erase_errors = {}

(***************************************************************************)
(* Control flow of decrypt_files_in_directory                              *)
(***************************************************************************)
\* statements of the inner try (lines 96-163): a FileNotFoundError raised
\* there is handled at line 166; everything else, and every exception
\* raised outside it, is handled at line 186
InnerTry ==
  {"L98_start_loading_animation", "L101_decrypt_aes_key_and_iv",
   "L106_listdir", "L106_for", "L110_skip_check", "L125_sidecars_exist",
   "L131_read_sidecars", "L140_decrypt_file", "L147_open_output",
   "L148_write_output", "L152_secure_delete_file",
   "L153_secure_delete_tag", "L154_secure_delete_nonce",
   "L159_stop_loading_animation", "L162_create_message_window"}

\* where an exception e raised by the statement at pc is handled
Handler(e) ==
  IF e = "FileNotFoundError" /\ pc \in InnerTry
  THEN "L167_stop_loading_animation"
  ELSE "L187_except"

\* raise e: control moves to the handler; who: what raised it
Raise(e, who) ==
  /\ pc' = Handler(e)
  /\ caught' = IF Handler(e) = "L187_except" THEN e ELSE caught
  /\ raised_by' = who

\* line 65 with the call of create_temp_state left for later
L65_create_temp_state_postponed ==
  /\ pc = "L65_create_temp_state"
  /\ marker' = marker
  /\ pc' = "L67_signal"
  /\ UNCHANGED <<sigint_handler, wipe_setting, stored_hash, attempts,
                 account_password, derived_key, main_key, aes_key,
                 animation_thread, animating, fs, listing, idx,
                 filename, tag, nonce, decrypted_data, exiting, fs0,
                 prompts, gate, wiped, caught, raised_by, endkind,
                 opened, visited, skipped, failed, written,
                 erase_errors>>

\* line 65: create_temp_state('decrypt', directory)
L65_create_temp_state ==
  /\ pc = "L65_create_temp_state"
  /\ marker' = TRUE
  /\ pc' = "L67_signal"
  /\ UNCHANGED <<sigint_handler, wipe_setting, stored_hash, attempts,
                 account_password, derived_key, main_key, aes_key,
                 animation_thread, animating, fs, listing, idx,
                 filename, tag, nonce, decrypted_data, exiting, fs0,
                 prompts, gate, wiped, caught, raised_by, endkind,
                 opened, visited, skipped, failed, written,
                 erase_errors>>

\* line 67: signal.signal(signal.SIGINT, ...)
L67_signal ==
  /\ pc = "L67_signal"
  /\ sigint_handler' = TRUE
  /\ pc' = "L70_load_security_settings"
  /\ UNCHANGED <<marker, wipe_setting, stored_hash, attempts,
                 account_password, derived_key, main_key, aes_key,
                 animation_thread, animating, fs, listing, idx,
                 filename, tag, nonce, decrypted_data, exiting, fs0,
                 prompts, gate, wiped, caught, raised_by, endkind,
                 opened, visited, skipped, failed, written,
                 erase_errors>>

\* line 70: load_security_settings(); the setting is read at line 177
L70_load_security_settings ==
  /\ pc = "L70_load_security_settings"
  /\ \E w \in BOOLEAN : wipe_setting' = w
  /\ pc' = "L72_get_stored_password_hash"
  /\ UNCHANGED <<marker, sigint_handler, stored_hash, attempts,
                 account_password, derived_key, main_key, aes_key,
                 animation_thread, animating, fs, listing, idx,
                 filename, tag, nonce, decrypted_data, exiting, fs0,
                 prompts, gate, wiped, caught, raised_by, endkind,
                 opened, visited, skipped, failed, written,
                 erase_errors>>

\* lines 72-73 without the test of stored_hash
L72_get_stored_password_hash_no_check ==
  /\ pc = "L72_get_stored_password_hash"
  /\ \E h \in {"None", PasswordHash(CorrectPassword)} :
       /\ stored_hash' = h
       /\ pc' = "L80_while"
  /\ UNCHANGED <<marker, sigint_handler, wipe_setting, attempts,
                 account_password, derived_key, main_key, aes_key,
                 animation_thread, animating, fs, listing, idx,
                 filename, tag, nonce, decrypted_data, exiting, fs0,
                 prompts, gate, wiped, caught, raised_by, endkind,
                 opened, visited, skipped, failed, written,
                 erase_errors>>

\* lines 72-73: stored_hash = get_stored_password_hash()
L72_get_stored_password_hash ==
  /\ pc = "L72_get_stored_password_hash"
  /\ \E h \in {"None", PasswordHash(CorrectPassword)} :
       /\ stored_hash' = h
       /\ pc' = IF h = "None" THEN "L76_main" ELSE "L80_while"
  /\ UNCHANGED <<marker, sigint_handler, wipe_setting, attempts,
                 account_password, derived_key, main_key, aes_key,
                 animation_thread, animating, fs, listing, idx,
                 filename, tag, nonce, decrypted_data, exiting, fs0,
                 prompts, gate, wiped, caught, raised_by, endkind,
                 opened, visited, skipped, failed, written,
                 erase_errors>>

\* lines 74-77: no password set up: main(), then return
L76_main ==
  /\ pc = "L76_main"
  /\ endkind' = "setup"
  /\ pc' = "L189_cleanup_temp_state"
  /\ UNCHANGED <<marker, sigint_handler, wipe_setting, stored_hash,
                 attempts, account_password, derived_key, main_key,
                 aes_key, animation_thread, animating, fs, listing,
                 idx, filename, tag, nonce, decrypted_data, exiting,
                 fs0, prompts, gate, wiped, caught, raised_by, opened,
                 visited, skipped, failed, written, erase_errors>>

\* line 80: while attempts < 3; lines 183-184 follow the loop
L80_while ==
  /\ pc = "L80_while"
  /\ IF AttemptsRemain(attempts)
     THEN /\ pc' = "L81_getpass"
          /\ UNCHANGED <<exiting, endkind>>
     ELSE /\ exiting' = TRUE
          /\ endkind' = "locked"
          /\ pc' = "L189_cleanup_temp_state"
  /\ UNCHANGED <<marker, sigint_handler, wipe_setting, stored_hash,
                 attempts, account_password, derived_key, main_key,
                 aes_key, animation_thread, animating, fs, listing,
                 idx, filename, tag, nonce, decrypted_data, fs0,
                 prompts, gate, wiped, caught, raised_by, opened,
                 visited, skipped, failed, written, erase_errors>>

\* line 81: account_password = getpass.getpass(...)
L81_getpass ==
  /\ pc = "L81_getpass"
  /\ \E p \in Passwords : account_password' = p
  /\ prompts' = prompts + 1
  /\ pc' = "L83_check_password"
  /\ UNCHANGED <<marker, sigint_handler, wipe_setting, stored_hash,
                 attempts, derived_key, main_key, aes_key,
                 animation_thread, animating, fs, listing, idx,
                 filename, tag, nonce, decrypted_data, exiting, fs0,
                 gate, wiped, caught, raised_by, endkind, opened,
                 visited, skipped, failed, written, erase_errors>>

\* line 83 with the test inverted
L83_check_password_inverted ==
  /\ pc = "L83_check_password"
  /\ IF ~check_password(stored_hash, account_password)
     THEN /\ pc' = "L86_derive_key"
          /\ gate' = gate
     ELSE /\ pc' = "L172_attempts"
          /\ gate' = "Unlocked"
  /\ UNCHANGED <<marker, sigint_handler, wipe_setting, stored_hash,
                 attempts, account_password, derived_key, main_key,
                 aes_key, animation_thread, animating, fs, listing,
                 idx, filename, tag, nonce, decrypted_data, exiting,
                 fs0, prompts, wiped, caught, raised_by, endkind,
                 opened, visited, skipped, failed, written,
                 erase_errors>>

\* line 83: if check_password(stored_hash, account_password)
L83_check_password ==
  /\ pc = "L83_check_password"
  /\ IF check_password(stored_hash, account_password)
     THEN /\ pc' = "L86_derive_key"
          /\ gate' = "Unlocked"
     ELSE /\ pc' = "L172_attempts"
          /\ gate' = gate
  /\ UNCHANGED <<marker, sigint_handler, wipe_setting, stored_hash,
                 attempts, account_password, derived_key, main_key,
                 aes_key, animation_thread, animating, fs, listing,
                 idx, filename, tag, nonce, decrypted_data, exiting,
                 fs0, prompts, wiped, caught, raised_by, endkind,
                 opened, visited, skipped, failed, written,
                 erase_errors>>

\* lines 84-86: derived_key = derive_key(account_password.encode(), salt, ...)
L86_derive_key ==
  /\ pc = "L86_derive_key"
  /\ \E salt \in Salts : derived_key' = derive_key(account_password, salt)
  /\ pc' = "L88_open_keys_file"
  /\ UNCHANGED <<marker, sigint_handler, wipe_setting, stored_hash,
                 attempts, account_password, main_key, aes_key,
                 animation_thread, animating, fs, listing, idx,
                 filename, tag, nonce, decrypted_data, exiting, fs0,
                 prompts, gate, wiped, caught, raised_by, endkind,
                 opened, visited, skipped, failed, written,
                 erase_errors>>

\* lines 88-92: open and read keys_ivs/encrypted_keys_ivs.bin
L88_open_keys_file ==
  /\ pc = "L88_open_keys_file"
  /\ fs' = IF OpenForRead(fs, KeysFile) = "none" \/ KeysFileMode = "wb"
           THEN AfterOpen(fs, KeysFile, KeysFileMode)
           ELSE fs
  /\ IF KeysFileMode = "wb"
     THEN Raise("UnsupportedOperation", "keys")
     ELSE IF OpenForRead(fs, KeysFile) # "none"
     THEN Raise(OpenForRead(fs, KeysFile), "keys")
     ELSE /\ pc' = "L94_prompt_for_main_key"
          /\ UNCHANGED <<caught, raised_by>>
  /\ UNCHANGED <<marker, sigint_handler, wipe_setting, stored_hash,
                 attempts, account_password, derived_key, main_key,
                 aes_key, animation_thread, animating, listing, idx,
                 filename, tag, nonce, decrypted_data, exiting, fs0,
                 prompts, gate, wiped, endkind, opened, visited,
                 skipped, failed, written, erase_errors>>

\* line 94: main_key = prompt_for_main_key(...)
L94_prompt_for_main_key ==
  /\ pc = "L94_prompt_for_main_key"
  /\ main_key' = "main-key"
  /\ pc' = "L98_start_loading_animation"
  /\ UNCHANGED <<marker, sigint_handler, wipe_setting, stored_hash,
                 attempts, account_password, derived_key, aes_key,
                 animation_thread, animating, fs, listing, idx,
                 filename, tag, nonce, decrypted_data, exiting, fs0,
                 prompts, gate, wiped, caught, raised_by, endkind,
                 opened, visited, skipped, failed, written,
                 erase_errors>>

\* line 98: animation_thread = start_loading_animation(...)
L98_start_loading_animation ==
  /\ pc = "L98_start_loading_animation"
  /\ animation_thread' = "thread"
  /\ animating' = TRUE
  /\ pc' = "L101_decrypt_aes_key_and_iv"
  /\ UNCHANGED <<marker, sigint_handler, wipe_setting, stored_hash,
                 attempts, account_password, derived_key, main_key,
                 aes_key, fs, listing, idx, filename, tag, nonce,
                 decrypted_data, exiting, fs0, prompts, gate, wiped,
                 caught, raised_by, endkind, opened, visited, skipped,
                 failed, written, erase_errors>>

\* lines 101-103 with a missing key counted as a failed password attempt
L101_decrypt_aes_key_and_iv_counts_attempt ==
  /\ pc = "L101_decrypt_aes_key_and_iv"
  /\ \E k \in {"None", "dek"} :
       /\ aes_key' = k
       /\ endkind' = endkind
       /\ pc' = IF k = "None" THEN "L172_attempts" ELSE "L106_listdir"
  /\ UNCHANGED <<marker, sigint_handler, wipe_setting, stored_hash,
                 attempts, account_password, derived_key, main_key,
                 animation_thread, animating, fs, listing, idx,
                 filename, tag, nonce, decrypted_data, exiting, fs0,
                 prompts, gate, wiped, caught, raised_by, opened,
                 visited, skipped, failed, written, erase_errors>>

\* lines 101-103: aes_key, iv = decrypt_aes_key_and_iv(...); return if None
L101_decrypt_aes_key_and_iv ==
  /\ pc = "L101_decrypt_aes_key_and_iv"
  /\ \E k \in {"None", "dek"} :
       /\ aes_key' = k
       /\ IF k = "None"
          THEN /\ endkind' = "nokey"
               /\ pc' = "L189_cleanup_temp_state"
          ELSE /\ endkind' = endkind
               /\ pc' = "L106_listdir"
  /\ UNCHANGED <<marker, sigint_handler, wipe_setting, stored_hash,
                 attempts, account_password, derived_key, main_key,
                 animation_thread, animating, fs, listing, idx,
                 filename, tag, nonce, decrypted_data, exiting, fs0,
                 prompts, gate, wiped, caught, raised_by, opened,
                 visited, skipped, failed, written, erase_errors>>

\* line 106: os.listdir(directory), evaluated once
L106_listdir ==
  /\ pc = "L106_listdir"
  /\ listing' = ListDir(fs)
  /\ idx' = 0
  /\ pc' = "L106_for"
  /\ UNCHANGED <<marker, sigint_handler, wipe_setting, stored_hash,
                 attempts, account_password, derived_key, main_key,
                 aes_key, animation_thread, animating, fs, filename,
                 tag, nonce, decrypted_data, exiting, fs0, prompts,
                 gate, wiped, caught, raised_by, endkind, opened,
                 visited, skipped, failed, written, erase_errors>>

\* line 106 with an iterator that never advances
L106_for_no_advance ==
  /\ pc = "L106_for"
  /\ IF idx < Len(listing)
     THEN /\ filename' = listing[idx + 1]
          /\ visited' = visited \cup {listing[idx + 1]}
          /\ pc' = "L110_skip_check"
     ELSE /\ pc' = "L159_stop_loading_animation"
          /\ UNCHANGED <<filename, visited>>
  /\ UNCHANGED <<marker, sigint_handler, wipe_setting, stored_hash,
                 attempts, account_password, derived_key, main_key,
                 aes_key, animation_thread, animating, fs, listing,
                 idx, tag, nonce, decrypted_data, exiting, fs0,
                 prompts, gate, wiped, caught, raised_by, endkind,
                 opened, skipped, failed, written, erase_errors>>

\* line 106: for filename in ...; line 107
L106_for ==
  /\ pc = "L106_for"
  /\ IF idx < Len(listing)
     THEN /\ idx' = idx + 1
          /\ filename' = listing[idx + 1]
          /\ visited' = visited \cup {listing[idx + 1]}
          /\ pc' = "L110_skip_check"
     ELSE /\ pc' = "L159_stop_loading_animation"
          /\ UNCHANGED <<idx, filename, visited>>
  /\ UNCHANGED <<marker, sigint_handler, wipe_setting, stored_hash,
                 attempts, account_password, derived_key, main_key,
                 aes_key, animation_thread, animating, fs, listing,
                 tag, nonce, decrypted_data, exiting, fs0, prompts,
                 gate, wiped, caught, raised_by, endkind, opened,
                 skipped, failed, written, erase_errors>>

\* lines 110-112 without the test of the suffix
L110_skip_check_no_suffix_test ==
  /\ pc = "L110_skip_check"
  /\ pc' = IF IsDir(fs, filename)
           THEN "L106_for"
           ELSE "L125_sidecars_exist"
  /\ UNCHANGED <<marker, sigint_handler, wipe_setting, stored_hash,
                 attempts, account_password, derived_key, main_key,
                 aes_key, animation_thread, animating, fs, listing,
                 idx, filename, tag, nonce, decrypted_data, exiting,
                 fs0, prompts, gate, wiped, caught, raised_by,
                 endkind, opened, visited, skipped, failed, written,
                 erase_errors>>

\* lines 110-112: skip directories and non-encrypted files
L110_skip_check ==
  /\ pc = "L110_skip_check"
  /\ pc' = IF IsDir(fs, filename) \/ ~EndsWithEnc(filename)
           THEN "L106_for"
           ELSE "L125_sidecars_exist"
  /\ UNCHANGED <<marker, sigint_handler, wipe_setting, stored_hash,
                 attempts, account_password, derived_key, main_key,
                 aes_key, animation_thread, animating, fs, listing,
                 idx, filename, tag, nonce, decrypted_data, exiting,
                 fs0, prompts, gate, wiped, caught, raised_by,
                 endkind, opened, visited, skipped, failed, written,
                 erase_errors>>

\* lines 125-127 with break in place of continue
L125_sidecars_exist_break ==
  /\ pc = "L125_sidecars_exist"
  /\ IF ~Exists(fs, TagFilePath(filename)) \/ ~Exists(fs, NonceFilePath(filename))
     THEN /\ skipped' = skipped \cup {filename}
          /\ pc' = "L159_stop_loading_animation"
     ELSE /\ skipped' = skipped
          /\ pc' = "L131_read_sidecars"
  /\ UNCHANGED <<marker, sigint_handler, wipe_setting, stored_hash,
                 attempts, account_password, derived_key, main_key,
                 aes_key, animation_thread, animating, fs, listing,
                 idx, filename, tag, nonce, decrypted_data, exiting,
                 fs0, prompts, gate, wiped, caught, raised_by,
                 endkind, opened, visited, failed, written,
                 erase_errors>>

\* lines 125-127: skip the file unless both sidecars exist
L125_sidecars_exist ==
  /\ pc = "L125_sidecars_exist"
  /\ IF ~Exists(fs, TagFilePath(filename)) \/ ~Exists(fs, NonceFilePath(filename))
     THEN /\ skipped' = skipped \cup {filename}
          /\ pc' = "L106_for"
     ELSE /\ skipped' = skipped
          /\ pc' = "L131_read_sidecars"
  /\ UNCHANGED <<marker, sigint_handler, wipe_setting, stored_hash,
                 attempts, account_password, derived_key, main_key,
                 aes_key, animation_thread, animating, fs, listing,
                 idx, filename, tag, nonce, decrypted_data, exiting,
                 fs0, prompts, gate, wiped, caught, raised_by,
                 endkind, opened, visited, failed, written,
                 erase_errors>>

\* lines 130-137: read the tag and the nonce; FileNotFoundError skips the file
L131_read_sidecars ==
  /\ pc = "L131_read_sidecars"
  /\ IF \/ OpenForRead(fs, TagFilePath(filename)) = "FileNotFoundError"
        \/ OpenForRead(fs, NonceFilePath(filename)) = "FileNotFoundError"
     THEN /\ skipped' = skipped \cup {filename}
          /\ pc' = "L106_for"
          /\ UNCHANGED <<tag, nonce, opened>>
     ELSE /\ tag' = fs[TagFilePath(filename)]
          /\ nonce' = fs[NonceFilePath(filename)]
          /\ opened' = opened \cup {TagFilePath(filename), NonceFilePath(filename)}
          /\ pc' = "L140_decrypt_file"
          /\ skipped' = skipped
  /\ UNCHANGED <<marker, sigint_handler, wipe_setting, stored_hash,
                 attempts, account_password, derived_key, main_key,
                 aes_key, animation_thread, animating, fs, listing,
                 idx, filename, decrypted_data, exiting, fs0, prompts,
                 gate, wiped, caught, raised_by, endkind, visited,
                 failed, written, erase_errors>>

\* lines 140-143 without the test of decrypted_data
L140_decrypt_file_no_check ==
  /\ pc = "L140_decrypt_file"
  /\ LET r == decrypt_file(fs, filename, aes_key, "iv", tag, nonce)
     IN  IF r.raised # "none"
         THEN /\ Raise(r.raised, "file")
              /\ UNCHANGED <<decrypted_data, failed, opened>>
         ELSE /\ decrypted_data' = r.data
              /\ opened' = opened \cup {filename}
              /\ failed' = IF r.data = "None" THEN failed \cup {filename}
                           ELSE failed
              /\ pc' = IF r.data = "None" THEN "L147_open_output"
                       ELSE "L147_open_output"
              /\ UNCHANGED <<caught, raised_by>>
  /\ UNCHANGED <<marker, sigint_handler, wipe_setting, stored_hash,
                 attempts, account_password, derived_key, main_key,
                 aes_key, animation_thread, animating, fs, listing,
                 idx, filename, tag, nonce, exiting, fs0, prompts,
                 gate, wiped, endkind, visited, skipped, written,
                 erase_errors>>

\* lines 140-156 with the write of lines 146-148 left out
L140_decrypt_file_erase_first ==
  /\ pc = "L140_decrypt_file"
  /\ LET r == decrypt_file(fs, filename, aes_key, "iv", tag, nonce)
     IN  IF r.raised # "none"
         THEN /\ Raise(r.raised, "file")
              /\ UNCHANGED <<decrypted_data, failed, opened>>
         ELSE /\ decrypted_data' = r.data
              /\ opened' = opened \cup {filename}
              /\ failed' = IF r.data = "None" THEN failed \cup {filename}
                           ELSE failed
              /\ pc' = IF r.data = "None" THEN "L106_for"
                       ELSE "L152_secure_delete_file"
              /\ UNCHANGED <<caught, raised_by>>
  /\ UNCHANGED <<marker, sigint_handler, wipe_setting, stored_hash,
                 attempts, account_password, derived_key, main_key,
                 aes_key, animation_thread, animating, fs, listing,
                 idx, filename, tag, nonce, exiting, fs0, prompts,
                 gate, wiped, endkind, visited, skipped, written,
                 erase_errors>>

\* lines 140-143: decrypted_data = decrypt_file(...); continue if None
L140_decrypt_file ==
  /\ pc = "L140_decrypt_file"
  /\ LET r == decrypt_file(fs, filename, aes_key, "iv", tag, nonce)
     IN  IF r.raised # "none"
         THEN /\ Raise(r.raised, "file")
              /\ UNCHANGED <<decrypted_data, failed, opened>>
         ELSE /\ decrypted_data' = r.data
              /\ opened' = opened \cup {filename}
              /\ failed' = IF r.data = "None" THEN failed \cup {filename}
                           ELSE failed
              /\ pc' = IF r.data = "None" THEN "L106_for"
                       ELSE "L147_open_output"
              /\ UNCHANGED <<caught, raised_by>>
  /\ UNCHANGED <<marker, sigint_handler, wipe_setting, stored_hash,
                 attempts, account_password, derived_key, main_key,
                 aes_key, animation_thread, animating, fs, listing,
                 idx, filename, tag, nonce, exiting, fs0, prompts,
                 gate, wiped, endkind, visited, skipped, written,
                 erase_errors>>

\* line 147: open(decrypted_file_path, 'wb')
L147_open_output ==
  /\ pc = "L147_open_output"
  /\ fs' = AfterOpen(fs, BaseFilePath(filename), "wb")
  /\ pc' = "L148_write_output"
  /\ UNCHANGED <<marker, sigint_handler, wipe_setting, stored_hash,
                 attempts, account_password, derived_key, main_key,
                 aes_key, animation_thread, animating, listing, idx,
                 filename, tag, nonce, decrypted_data, exiting, fs0,
                 prompts, gate, wiped, caught, raised_by, endkind,
                 opened, visited, skipped, failed, written,
                 erase_errors>>

\* line 148: dec_file.write(decrypted_data), and the close of the with
L148_write_output ==
  /\ pc = "L148_write_output"
  /\ fs' = [fs EXCEPT ![BaseFilePath(filename)] = decrypted_data]
  /\ written' = written \cup {filename}
  /\ pc' = "L152_secure_delete_file"
  /\ UNCHANGED <<marker, sigint_handler, wipe_setting, stored_hash,
                 attempts, account_password, derived_key, main_key,
                 aes_key, animation_thread, animating, listing, idx,
                 filename, tag, nonce, decrypted_data, exiting, fs0,
                 prompts, gate, wiped, caught, raised_by, endkind,
                 opened, visited, skipped, failed, erase_errors>>

\* secure_delete(path) inside the try of lines 151-156: the file is removed,
\* or the call raises and line 156 reports it; the loop goes on either way
SecureDelete(path, next) ==
  \E ok \in BOOLEAN :
    IF ok
    THEN /\ fs' = [fs EXCEPT ![path] = "absent"]
         /\ pc' = next
         /\ erase_errors' = erase_errors
    ELSE /\ fs' = fs
         /\ pc' = "L106_for"
         /\ erase_errors' = erase_errors \cup {filename}

\* line 152: secure_delete(file_path)
L152_secure_delete_file ==
  /\ pc = "L152_secure_delete_file"
  /\ SecureDelete(filename, "L153_secure_delete_tag")
  /\ UNCHANGED <<marker, sigint_handler, wipe_setting, stored_hash,
                 attempts, account_password, derived_key, main_key,
                 aes_key, animation_thread, animating, listing, idx,
                 filename, tag, nonce, decrypted_data, exiting, fs0,
                 prompts, gate, wiped, caught, raised_by, endkind,
                 opened, visited, skipped, failed, written>>

\* line 153: secure_delete(tag_file_path)
L153_secure_delete_tag ==
  /\ pc = "L153_secure_delete_tag"
  /\ SecureDelete(TagFilePath(filename), "L154_secure_delete_nonce")
  /\ UNCHANGED <<marker, sigint_handler, wipe_setting, stored_hash,
                 attempts, account_password, derived_key, main_key,
                 aes_key, animation_thread, animating, listing, idx,
                 filename, tag, nonce, decrypted_data, exiting, fs0,
                 prompts, gate, wiped, caught, raised_by, endkind,
                 opened, visited, skipped, failed, written>>

\* line 154: secure_delete(nonce_file_path)
L154_secure_delete_nonce ==
  /\ pc = "L154_secure_delete_nonce"
  /\ SecureDelete(NonceFilePath(filename), "L106_for")
  /\ UNCHANGED <<marker, sigint_handler, wipe_setting, stored_hash,
                 attempts, account_password, derived_key, main_key,
                 aes_key, animation_thread, animating, listing, idx,
                 filename, tag, nonce, decrypted_data, exiting, fs0,
                 prompts, gate, wiped, caught, raised_by, endkind,
                 opened, visited, skipped, failed, written>>

\* line 159: stop_loading_animation(animation_thread)
L159_stop_loading_animation ==
  /\ pc = "L159_stop_loading_animation"
  /\ animating' = FALSE
  /\ pc' = "L162_create_message_window"
  /\ UNCHANGED <<marker, sigint_handler, wipe_setting, stored_hash,
                 attempts, account_password, derived_key, main_key,
                 aes_key, animation_thread, fs, listing, idx,
                 filename, tag, nonce, decrypted_data, exiting, fs0,
                 prompts, gate, wiped, caught, raised_by, endkind,
                 opened, visited, skipped, failed, written,
                 erase_errors>>

\* lines 162-163: create_message_window(...), then return
L162_create_message_window ==
  /\ pc = "L162_create_message_window"
  /\ endkind' = "completed"
  /\ pc' = "L189_cleanup_temp_state"
  /\ UNCHANGED <<marker, sigint_handler, wipe_setting, stored_hash,
                 attempts, account_password, derived_key, main_key,
                 aes_key, animation_thread, animating, fs, listing,
                 idx, filename, tag, nonce, decrypted_data, exiting,
                 fs0, prompts, gate, wiped, caught, raised_by, opened,
                 visited, skipped, failed, written, erase_errors>>

\* lines 166-169: except FileNotFoundError: stop the animation, return
L167_stop_loading_animation ==
  /\ pc = "L167_stop_loading_animation"
  /\ animating' = FALSE
  /\ endkind' = "keys_not_found"
  /\ pc' = "L189_cleanup_temp_state"
  /\ UNCHANGED <<marker, sigint_handler, wipe_setting, stored_hash,
                 attempts, account_password, derived_key, main_key,
                 aes_key, animation_thread, fs, listing, idx,
                 filename, tag, nonce, decrypted_data, exiting, fs0,
                 prompts, gate, wiped, caught, raised_by, opened,
                 visited, skipped, failed, written, erase_errors>>

\* lines 172-173: attempts += 1; if attempts < 3
L172_attempts ==
  /\ pc = "L172_attempts"
  /\ attempts' = attempts + 1
  /\ pc' = IF AttemptsRemain(attempts + 1)
           THEN "L174_invalid_password"
           ELSE "L176_too_many_attempts"
  /\ UNCHANGED <<marker, sigint_handler, wipe_setting, stored_hash,
                 account_password, derived_key, main_key, aes_key,
                 animation_thread, animating, fs, listing, idx,
                 filename, tag, nonce, decrypted_data, exiting, fs0,
                 prompts, gate, wiped, caught, raised_by, endkind,
                 opened, visited, skipped, failed, written,
                 erase_errors>>

\* line 174: report 3 - attempts attempt(s) remaining; back to the while
L174_invalid_password ==
  /\ pc = "L174_invalid_password"
  /\ pc' = "L80_while"
  /\ UNCHANGED <<marker, sigint_handler, wipe_setting, stored_hash,
                 attempts, account_password, derived_key, main_key,
                 aes_key, animation_thread, animating, fs, listing,
                 idx, filename, tag, nonce, decrypted_data, exiting,
                 fs0, prompts, gate, wiped, caught, raised_by,
                 endkind, opened, visited, skipped, failed, written,
                 erase_errors>>

\* lines 176-177: too many failed attempts; read the wipe setting
L176_too_many_attempts ==
  /\ pc = "L176_too_many_attempts"
  /\ gate' = "Locked"
  /\ pc' = IF wipe_setting THEN "L179_wipe_encrypted_files"
           ELSE "L180_sys_exit"
  /\ UNCHANGED <<marker, sigint_handler, wipe_setting, stored_hash,
                 attempts, account_password, derived_key, main_key,
                 aes_key, animation_thread, animating, fs, listing,
                 idx, filename, tag, nonce, decrypted_data, exiting,
                 fs0, prompts, wiped, caught, raised_by, endkind,
                 opened, visited, skipped, failed, written,
                 erase_errors>>

\* lines 178-179: wipe_encrypted_files(directory)
L179_wipe_encrypted_files ==
  /\ pc = "L179_wipe_encrypted_files"
  /\ fs' = wipe_encrypted_files(fs)
  /\ wiped' = TRUE
  /\ pc' = "L180_sys_exit"
  /\ UNCHANGED <<marker, sigint_handler, wipe_setting, stored_hash,
                 attempts, account_password, derived_key, main_key,
                 aes_key, animation_thread, animating, listing, idx,
                 filename, tag, nonce, decrypted_data, exiting, fs0,
                 prompts, gate, caught, raised_by, endkind, opened,
                 visited, skipped, failed, written, erase_errors>>

\* line 180 with os._exit(1): the process ends at once
L180_os_exit ==
  /\ pc = "L180_sys_exit"
  /\ exiting' = TRUE
  /\ endkind' = "locked"
  /\ pc' = "done"
  /\ UNCHANGED <<marker, sigint_handler, wipe_setting, stored_hash,
                 attempts, account_password, derived_key, main_key,
                 aes_key, animation_thread, animating, fs, listing,
                 idx, filename, tag, nonce, decrypted_data, fs0,
                 prompts, gate, wiped, caught, raised_by, opened,
                 visited, skipped, failed, written, erase_errors>>

\* line 180: sys.exit(1) raises SystemExit, which line 186 does not catch
L180_sys_exit ==
  /\ pc = "L180_sys_exit"
  /\ exiting' = TRUE
  /\ endkind' = "locked"
  /\ pc' = "L189_cleanup_temp_state"
  /\ UNCHANGED <<marker, sigint_handler, wipe_setting, stored_hash,
                 attempts, account_password, derived_key, main_key,
                 aes_key, animation_thread, animating, fs, listing,
                 idx, filename, tag, nonce, decrypted_data, fs0,
                 prompts, gate, wiped, caught, raised_by, opened,
                 visited, skipped, failed, written, erase_errors>>

\* lines 186-187: except Exception as e: report it
L187_except ==
  /\ pc = "L187_except"
  /\ endkind' = "exception"
  /\ pc' = "L189_cleanup_temp_state"
  /\ UNCHANGED <<marker, sigint_handler, wipe_setting, stored_hash,
                 attempts, account_password, derived_key, main_key,
                 aes_key, animation_thread, animating, fs, listing,
                 idx, filename, tag, nonce, decrypted_data, exiting,
                 fs0, prompts, gate, wiped, caught, raised_by, opened,
                 visited, skipped, failed, written, erase_errors>>

\* lines 188-189 without the stop_loading_animation of lines 190-191
L189_cleanup_temp_state_only ==
  /\ pc = "L189_cleanup_temp_state"
  /\ marker' = FALSE
  /\ pc' = "done"
  /\ UNCHANGED <<sigint_handler, wipe_setting, stored_hash, attempts,
                 account_password, derived_key, main_key, aes_key,
                 animation_thread, animating, fs, listing, idx,
                 filename, tag, nonce, decrypted_data, exiting, fs0,
                 prompts, gate, wiped, caught, raised_by, endkind,
                 opened, visited, skipped, failed, written,
                 erase_errors>>

\* lines 188-190: finally: cleanup_temp_state(directory), which removes the
\* marker and returns
L189_cleanup_temp_state ==
  /\ pc = "L189_cleanup_temp_state"
  /\ marker' = FALSE
  /\ pc' = IF animation_thread # "None" THEN "L191_stop_loading_animation"
           ELSE "done"
  /\ UNCHANGED <<sigint_handler, wipe_setting, stored_hash, attempts,
                 account_password, derived_key, main_key, aes_key,
                 animation_thread, animating, fs, listing, idx,
                 filename, tag, nonce, decrypted_data, exiting, fs0,
                 prompts, gate, wiped, caught, raised_by, endkind,
                 opened, visited, skipped, failed, written,
                 erase_errors>>

\* line 191: stop_loading_animation(animation_thread)
L191_stop_loading_animation ==
  /\ pc = "L191_stop_loading_animation"
  /\ animating' = FALSE
  /\ pc' = "done"
  /\ UNCHANGED <<marker, sigint_handler, wipe_setting, stored_hash,
                 attempts, account_password, derived_key, main_key,
                 aes_key, animation_thread, fs, listing, idx,
                 filename, tag, nonce, decrypted_data, exiting, fs0,
                 prompts, gate, wiped, caught, raised_by, endkind,
                 opened, visited, skipped, failed, written,
                 erase_errors>>

\* statements of the try body that call a collaborator
CallPcs ==
  {"L65_create_temp_state", "L70_load_security_settings",
   "L72_get_stored_password_hash", "L76_main", "L81_getpass",
   "L83_check_password", "L86_derive_key", "L94_prompt_for_main_key",
   "L98_start_loading_animation", "L101_decrypt_aes_key_and_iv",
   "L159_stop_loading_animation", "L162_create_message_window",
   "L179_wipe_encrypted_files"}

\* a collaborator called in the try body raises: a failed create_temp_state may
\* or may not have written the marker, a failed wipe had been invoked
CollaboratorRaises ==
  /\ pc \in CallPcs
  /\ Raise("RuntimeError", "collaborator")
  /\ IF pc = "L65_create_temp_state" THEN marker' \in BOOLEAN
     ELSE marker' = marker
  /\ wiped' = (wiped \/ pc = "L179_wipe_encrypted_files")
  /\ UNCHANGED <<sigint_handler, wipe_setting, stored_hash, attempts,
                 account_password, derived_key, main_key, aes_key,
                 animation_thread, animating, fs, listing, idx,
                 filename, tag, nonce, decrypted_data, exiting, fs0,
                 prompts, gate, endkind, opened, visited, skipped,
                 failed, written, erase_errors>>

Next ==
  \/ L65_create_temp_state
  \/ L67_signal
  \/ L70_load_security_settings
  \/ L72_get_stored_password_hash
  \/ L76_main
  \/ L80_while
  \/ L81_getpass
  \/ L83_check_password
  \/ L86_derive_key
  \/ L88_open_keys_file
  \/ L94_prompt_for_main_key
  \/ L98_start_loading_animation
  \/ L101_decrypt_aes_key_and_iv
  \/ L106_listdir
  \/ L106_for
  \/ L110_skip_check
  \/ L125_sidecars_exist
  \/ L131_read_sidecars
  \/ L140_decrypt_file
  \/ L147_open_output
  \/ L148_write_output
  \/ L152_secure_delete_file
  \/ L153_secure_delete_tag
  \/ L154_secure_delete_nonce
  \/ L159_stop_loading_animation
  \/ L162_create_message_window
  \/ L167_stop_loading_animation
  \/ L172_attempts
  \/ L174_invalid_password
  \/ L176_too_many_attempts
  \/ L179_wipe_encrypted_files
  \/ L180_sys_exit
  \/ L187_except
  \/ L189_cleanup_temp_state
  \/ L191_stop_loading_animation
  \/ CollaboratorRaises

Spec == Init /\ [][Next]_vars

\* the invocation has ended
Done == pc = "done"

\* how it ended: SystemExit(1) leaves the process with status 1
ExitedWithStatus1 == Done /\ exiting

ReturnedNormally == Done /\ ~exiting

\* every statement that is reached runs to its end: the interpreter makes
\* progress as long as each external call returns
SpecFair == Spec /\ WF_vars(Next)

\* statements of the per-file loop (lines 106-156)
LoopPcs ==
  {"L106_for", "L110_skip_check", "L125_sidecars_exist",
   "L131_read_sidecars", "L140_decrypt_file", "L147_open_output",
   "L148_write_output", "L152_secure_delete_file",
   "L153_secure_delete_tag", "L154_secure_delete_nonce"}

\* SIGINT while the loop runs: the handler installed at line 67 calls
\* handle_interrupt(directory), which removes the marker, stops the
\* animation and ends the process; the statement at pc never runs
handle_interrupt ==
  /\ sigint_handler
  /\ pc \in LoopPcs
  /\ marker' = FALSE
  /\ animating' = FALSE
  /\ endkind' = "interrupted"
  /\ pc' = "done"
  /\ UNCHANGED <<sigint_handler, wipe_setting, stored_hash, attempts,
                 account_password, derived_key, main_key, aes_key,
                 animation_thread, fs, listing, idx, filename, tag,
                 nonce, decrypted_data, exiting, fs0, prompts, gate,
                 wiped, caught, raised_by, opened, visited, skipped,
                 failed, written, erase_errors>>

NextInt == Next \/ handle_interrupt

\* the program with interrupts delivered during the per-file loop
SpecInt == Init /\ [][NextInt]_vars

\* the entries the loop does not skip at line 110: not a subdirectory, and
\* the name ends in ".enc"
EncEntries(f) ==
  {x \in TopNames : Exists(f, x) /\ ~IsDir(f, x) /\ EndsWithEnc(x)}

(***************************************************************************)
(* Claims                                                                  *)
(***************************************************************************)

\* C1: when an invocation has ended, the recovery marker is absent, whatever
\* the exit path: completion of the file loop, the return for a vault with
\* no password hash, a key unwrap that returned no key, a missing key file,
\* a raised exception, or the lockout that leaves through sys.exit(1).
C1_MarkerAbsentAtEnd == Done => ~marker

\* C1 witness: the run ended by lockout, SystemExit went through the
\* finally block, and the marker written at line 65 is gone.
C1_Witness ==
  Done /\ exiting /\ endkind = "locked" /\ attempts = MaxAttempts /\ ~marker

\* C2: the third failed check_password locks the gate: never more than 3
\* prompts, no prompt after the third failure, the gate is Locked only after
\* exactly 3 failures, wipe_encrypted_files is invoked exactly when the
\* setting is enabled, and with the setting disabled the directory is as it
\* was.
C2_LockoutAfterThreeFailures ==
  /\ prompts <= MaxAttempts
  /\ attempts <= MaxAttempts
  /\ attempts = MaxAttempts =>
       pc \in {"L176_too_many_attempts", "L179_wipe_encrypted_files",
               "L180_sys_exit", "L187_except", "L189_cleanup_temp_state",
               "done"}
  /\ gate = "Locked" => attempts = MaxAttempts /\ prompts = MaxAttempts
  /\ attempts = MaxAttempts /\ pc # "L176_too_many_attempts" =>
       gate = "Locked"
  /\ gate = "Locked" /\ pc # "L179_wipe_encrypted_files" =>
       (wiped <=> wipe_setting)
  /\ wiped => gate = "Locked"
  /\ gate = "Locked" /\ ~wipe_setting => fs = fs0

\* C2 witness: three prompts, three failures, the gate is Locked, the wipe
\* was enabled and has removed an encrypted file.
C2_Witness ==
  /\ Done
  /\ gate = "Locked"
  /\ prompts = MaxAttempts
  /\ wipe_setting
  /\ wiped
  /\ \E b \in Bases : fs0[EncName(b)] = "ct" /\ fs[EncName(b)] = "absent"

\* C3: for every encrypted file whose decryption fails (decrypt_file
\* returned None, or raised), the base path and the three source artifacts
\* are as they were before the run.
C3_FailedDecryptLeavesFilesAlone ==
  LET Untouched(e) ==
        \A x \in Artifacts(e) \cup {BaseFilePath(e)} : fs[x] = fs0[x]
  IN  /\ \A e \in failed : Untouched(e)
      /\ raised_by = "file" => Untouched(filename)

\* C3 witness: a file failed its tag check, the loop went on, wrote another
\* file and completed.
C3_Witness ==
  /\ Done
  /\ endkind = "completed"
  /\ failed # {}
  /\ written # {}

\* C4 as claimed: when decrypting a file failed, or erasing one of its
\* artifacts failed, and no collaborator raised, the run ends as a normal
\* completion with every entry of the listing visited.
C4_FileFailureNeverAbortsBatch ==
  ( /\ Done
    /\ failed # {} \/ erase_errors # {} \/ raised_by = "file"
    /\ raised_by # "collaborator" )
  => /\ endkind = "completed"
     /\ \A k \in 1..Len(listing) : listing[k] \in visited

\* C5: an encrypted file with a missing sidecar is skipped: it is not read,
\* its base path and artifacts are as they were; and a run in which files
\* were skipped and nothing raised completes with every entry visited and
\* every authentic file that has both sidecars decrypted to its base path.
C5_MissingSidecarSkipped ==
  LET Missing(e) ==
        ~Exists(fs0, TagFilePath(e)) \/ ~Exists(fs0, NonceFilePath(e))
      Authentic(e) ==
        /\ ~Missing(e)
        /\ decrypt_file(fs0, e, "dek", "iv", fs0[TagFilePath(e)],
                        fs0[NonceFilePath(e)]) =
             [raised |-> "none", data |-> "plain"]
  IN  /\ \A e \in skipped :
           /\ Missing(e)
           /\ e \notin opened
           /\ \A x \in Artifacts(e) \cup {BaseFilePath(e)} : fs[x] = fs0[x]
      /\ \A e \in EncEntries(fs0) :
           Missing(e) /\ e \in visited /\ (filename # e \/ pc = "L106_for")
             => e \in skipped
      /\ Done /\ skipped # {} /\ raised_by = "none" /\ aes_key = "dek" =>
           /\ endkind = "completed"
           /\ \A e \in EncEntries(fs0) :
                /\ e \in visited
                /\ Authentic(e) =>
                     e \in written /\ fs[BaseFilePath(e)] = "plain"

\* C5 witness: the first file of the listing lacks a sidecar and was skipped,
\* a later file of the same batch was decrypted, and the run completed.
C5_Witness ==
  /\ Done
  /\ endkind = "completed"
  /\ EncName("a") \in skipped
  /\ fs[EncName("a")] = "ct"
  /\ fs[PlainName("a")] = "absent"
  /\ EncName("b") \in written
  /\ fs[PlainName("b")] = "plain"

\* C6: if a source artifact of an encrypted file has been erased by the loop
\* (it was there before the run, is gone now, and no wipe ran), then the
\* file's decryption succeeded and its complete plaintext is at the base
\* path; this holds in the state right after the first erasure, so the write
\* came first.
C6_EraseOnlyAfterPlaintextWritten ==
  \A e \in EncEntries(fs0) :
    (~wiped /\ \E x \in Artifacts(e) : Exists(fs0, x) /\ ~Exists(fs, x))
    => /\ e \in written
       /\ e \notin failed
       /\ fs[BaseFilePath(e)] = "plain"
       /\ GcmDecrypt(fs0[e], aes_key, fs0[TagFilePath(e)],
                     fs0[NonceFilePath(e)]) = "plain"

\* C6 witness: the loop is between the first and the second erasure of a
\* file: the ciphertext is gone, the tag file is still there.
C6_Witness ==
  /\ pc = "L153_secure_delete_tag"
  /\ ~Exists(fs, filename)
  /\ Exists(fs, TagFilePath(filename))
  /\ fs[BaseFilePath(filename)] = "plain"

\* C7: the loop reads, writes or erases only after a submitted password
\* passed check_password and the key unwrap returned a key.
C7_LoopOnlyWhenUnlockedWithKey ==
  ( \/ opened # {}
    \/ written # {}
    \/ visited # {}
    \/ (fs # fs0 /\ ~wiped)
    \/ pc \in {"L106_listdir", "L106_for", "L110_skip_check",
               "L125_sidecars_exist", "L131_read_sidecars",
               "L140_decrypt_file", "L147_open_output", "L148_write_output",
               "L152_secure_delete_file", "L153_secure_delete_tag",
               "L154_secure_delete_nonce"} )
  => /\ gate = "Unlocked"
     /\ check_password(stored_hash, account_password)
     /\ aes_key = "dek"

\* C7 witness: after the password passed and the key was unwrapped, a file
\* was read, written and its ciphertext erased.
C7_Witness ==
  /\ gate = "Unlocked"
  /\ aes_key = "dek"
  /\ \E e \in written : e \in opened /\ ~Exists(fs, e)

\* C8 as claimed: a key unwrap that returns no key is a failed attempt the
\* gate retries, so a run whose last unwrap returned no key (and in which
\* nothing raised) has ended in lockout.
C8_UnwrapFailureIsRetried ==
  Done /\ aes_key = "None" /\ caught = "none" => gate = "Locked"

\* C9: when key recovery fails after a correct password (the key file is
\* missing, or the unwrap returned no key), nothing in the vault has changed:
\* every file, sidecar, key blob and base path is as it was.
C9_KeyRecoveryFailureChangesNothing ==
  (raised_by = "keys" \/ aes_key = "None") => fs = fs0

\* C9 witness: the password passed, the key file is missing, the run has
\* ended and the encrypted files are still there.
C9_Witness ==
  /\ Done
  /\ gate = "Unlocked"
  /\ raised_by = "keys"
  /\ ~Exists(fs0, KeysFile)
  /\ \E b \in Bases : fs[EncName(b)] = "ct"

\* C10 as claimed: an invocation in which the top-level handler caught an
\* exception does not end as a normal return.
C10_CaughtExceptionPropagates ==
  Done /\ caught # "none" => ~ReturnedNormally

\* C11 as claimed: the process ends with status 1 exactly when the gate
\* reached lockout, and with status 0 (a normal return to __main__)
\* otherwise.
C11_ExitStatusOneIffLockout ==
  Done => (ExitedWithStatus1 <=> gate = "Locked")

\* C12: with no stored password hash nothing of an unlock is attempted: no
\* prompt, no attempt counted, the gate stays as it was, no key derived or
\* unwrapped, no file of the vault read, written or erased; main() (the
\* setup flow) is what runs next, and nothing else follows it but the
\* handlers and the finally block.
C12_NoHashDefersToSetup ==
  stored_hash = "None" =>
    /\ prompts = 0
    /\ attempts = 0
    /\ gate = "AwaitingPassword"
    /\ account_password = "unset"
    /\ derived_key = "unset"
    /\ main_key = "unset"
    /\ aes_key = "unset"
    /\ opened = {}
    /\ visited = {}
    /\ ~wiped
    /\ fs = fs0
    /\ pc \in {"L76_main", "L187_except", "L189_cleanup_temp_state", "done"}
    /\ pc # "L76_main" => endkind = "setup" \/ raised_by = "collaborator"
    /\ Done /\ caught = "none" => endkind = "setup" /\ ReturnedNormally

\* C12 witness: a vault that holds an encrypted file and has no stored hash:
\* the run went to main(), returned, and the file is as it was.
C12_Witness ==
  /\ Done
  /\ stored_hash = "None"
  /\ endkind = "setup"
  /\ \E b \in Bases : fs[EncName(b)] = "ct" /\ Exists(fs, KeysFile)

\* C13 as claimed: after an interrupt during the per-file loop the marker is
\* cleared and every encrypted file is either decrypted (plaintext at the
\* base path, the three sources gone) or as it was before the run.
C13_InterruptLeavesTwoConditions ==
  Done /\ endkind = "interrupted" =>
    /\ ~marker
    /\ \A e \in EncEntries(fs0) :
         \/ /\ fs[BaseFilePath(e)] = "plain"
            /\ \A x \in Artifacts(e) : ~Exists(fs, x)
         \/ \A x \in Artifacts(e) \cup {BaseFilePath(e)} : fs[x] = fs0[x]

\* C13 amended: the same, for every encrypted file other than the one the
\* loop had taken last when the interrupt arrived and those for which a
\* secure_delete raised.
C13_InterruptLeavesOtherFilesWhole ==
  Done /\ endkind = "interrupted" =>
    /\ ~marker
    /\ \A e \in EncEntries(fs0) :
         e # filename /\ e \notin erase_errors =>
           \/ /\ fs[BaseFilePath(e)] = "plain"
              /\ \A x \in Artifacts(e) : ~Exists(fs, x)
           \/ \A x \in Artifacts(e) \cup {BaseFilePath(e)} : fs[x] = fs0[x]

\* C13 witness: the interrupt arrived while the second file was in flight
\* (its plaintext written, its sources not yet erased); the first file is
\* decrypted and its sources are gone.
C13_Witness ==
  /\ Done
  /\ endkind = "interrupted"
  /\ ~marker
  /\ fs[PlainName("a")] = "plain"
  /\ \A x \in Artifacts(EncName("a")) : ~Exists(fs, x)
  /\ filename = EncName("b")
  /\ fs[PlainName("b")] = "plain"
  /\ fs[EncName("b")] = "ct"

\* C14: create_temp_state is the first thing the operation does: while it has
\* not run, no handler is installed, no hash is read, no prompt was issued
\* and nothing was changed; and from then until the handlers and the finally
\* block the marker is present, in particular while a plaintext is written,
\* an artifact erased or the directory wiped.
C14_MarkerPersistedFirst ==
  /\ pc = "L65_create_temp_state" =>
       /\ ~sigint_handler
       /\ stored_hash = "unset"
       /\ prompts = 0
       /\ fs = fs0
  /\ pc \notin {"L65_create_temp_state", "L187_except",
                "L189_cleanup_temp_state", "L191_stop_loading_animation",
                "done"} => marker
  /\ (sigint_handler \/ stored_hash # "unset" \/ prompts > 0 \/ fs # fs0)
       /\ pc \notin {"L189_cleanup_temp_state",
                     "L191_stop_loading_animation", "done"}
       => marker

\* C14 witness: the marker is present while the plaintext of a file is being
\* written (the file is open and still empty).
C14_Witness ==
  /\ pc = "L148_write_output"
  /\ fs[BaseFilePath(filename)] = "empty"
  /\ marker

\* C15 as claimed: a file that was at the base path of an encrypted file
\* before the run is still there unchanged, or its replacement was reported.
\* Lines 145-148 report nothing, so no state of the program records a
\* report: what is left of the claim is that the file is unchanged.
C15_NoSilentOverwrite ==
  \A e \in EncEntries(fs0) :
    Exists(fs0, BaseFilePath(e)) /\ ~wiped =>
      fs[BaseFilePath(e)] = fs0[BaseFilePath(e)]

\* C16 as claimed: the main key is what unwrapping the wrapped main-key blob
\* under the derived KEK gives (an authentication failure under any KEK but
\* the one the blob was wrapped under), so a DEK is recovered only in a run
\* whose derived KEK is that one.
C16_DekDependsOnKek ==
  LET unwrap_main_key(kek) ==
        IF kek = derive_key(CorrectPassword, VaultSalt) THEN "main-key"
        ELSE "AuthFailure"
  IN  /\ main_key # "unset" => main_key = unwrap_main_key(derived_key)
      /\ aes_key = "dek" => derived_key = derive_key(CorrectPassword, VaultSalt)

C18_LoopLeavesOtherEntriesUnchanged ==
  LET Succeeded == {e \in EncEntries(fs0) : e \in opened /\ e \notin failed}
  IN  \A x \in TopNames :
        ( /\ IsDir(fs0, x) \/ ~EndsWithEnc(x)
          /\ ~wiped
          /\ ~\E e \in Succeeded : x = BaseFilePath(e) )
        => fs[x] = fs0[x]

\* C18 amended: the same, except also the tag and nonce sidecars of an entry
\* whose plaintext was written; and the loop goes past line 110 only for,
\* and reads only the artifacts of, entries that are not subdirectories and
\* whose name ends in ".enc".
C18_LoopTouchesOnlyEncEntries ==
  LET IsEnc(x) == Exists(fs0, x) /\ ~IsDir(fs0, x) /\ EndsWithEnc(x)
      Succeeded(e) == IsEnc(e) /\ e \in opened /\ e \notin failed
  IN  /\ \A x \in Names :
           fs[x] # fs0[x] =>
             \/ IsEnc(x)
             \/ wiped
             \/ \E e \in opened : Succeeded(e) /\ x = BaseFilePath(e)
             \/ \E e \in written :
                  x \in {TagFilePath(e), NonceFilePath(e)}
      /\ \A x \in opened :
           \E b \in Bases : IsEnc(EncName(b)) /\ x \in Artifacts(EncName(b))
      /\ \A e \in written : Succeeded(e)
      /\ pc \in (LoopPcs \ {"L106_for", "L110_skip_check"}) => IsEnc(filename)

\* C18 witness: the run completed and decrypted a file, erasing its sidecars,
\* while an unrelated file without the suffix and the keys_ivs subdirectory
\* were visited and are as they were.
C18_Witness ==
  /\ Done
  /\ endkind = "completed"
  /\ \E e \in written : ~Exists(fs, TagFilePath(e))
  /\ \E b \in Bases :
       /\ fs0[PlainName(b)] = "old"
       /\ ~Exists(fs0, EncName(b))
       /\ PlainName(b) \in visited
       /\ fs[PlainName(b)] = "old"
  /\ KeysDir \in visited
  /\ fs[KeysDir] = "dir"


\* C19: once check_password has accepted a password the gate stays Unlocked:
\* no step taken afterwards increments the attempt counter, issues a password
\* prompt, reaches Locked or invokes wipe_encrypted_files.
C19_UnlockedIsFinal ==
  [][gate = "Unlocked" =>
       /\ gate' = "Unlocked"
       /\ attempts' = attempts
       /\ prompts' = prompts
       /\ wiped' = wiped]_vars

\* C19 witness: a run unlocked at the third prompt, after two mismatches, has
\* decrypted files and ended.
C19_Witness ==
  /\ Done
  /\ gate = "Unlocked"
  /\ endkind = "completed"
  /\ attempts = 2
  /\ prompts = 3
  /\ ~wiped
  /\ written # {}

\* the ways an invocation ends: completed, deferred to setup, aborted (no
\* key, keys file not found, exception reported) or locked
EndKinds ==
  {"completed", "setup", "nokey", "keys_not_found", "exception", "locked"}

\* C20: every invocation terminates when each external call returns: the
\* attempt counter stays within 0..3 and counts the mismatching submissions,
\* rising by exactly one for each; at most 3 password prompts are issued;
\* each entry of the listing is visited at most once; and the run eventually
\* ends as completed, deferred to setup, aborted or locked.
C20_Terminates ==
  /\ [](/\ attempts \in 0..MaxAttempts
        /\ prompts \in 0..MaxAttempts
        /\ attempts \in {prompts - 1, prompts}
        /\ pc = "L172_attempts" =>
             /\ attempts = prompts - 1
             /\ ~check_password(stored_hash, account_password)
        /\ pc \in {"L80_while", "L174_invalid_password",
                   "L176_too_many_attempts", "L179_wipe_encrypted_files",
                   "L180_sys_exit"} => attempts = prompts
        /\ gate = "Unlocked" => attempts = prompts - 1
        /\ gate = "Locked" => attempts = MaxAttempts
        /\ idx \in 0..Len(listing)
        /\ Cardinality(visited) = idx
        /\ Done => endkind \in EndKinds)
  /\ [][/\ attempts' # attempts =>
             /\ attempts' = attempts + 1
             /\ pc = "L172_attempts"
        /\ (pc = "L83_check_password" /\ pc' # "L187_except") =>
             (pc' = "L172_attempts" <=>
                ~check_password(stored_hash, account_password))
        /\ visited' # visited =>
             /\ pc = "L106_for"
             /\ filename' \notin visited
             /\ visited' = visited \cup {filename'}
             /\ idx' = idx + 1]_vars
  /\ <>(Done /\ endkind \in EndKinds)

\* C20 witness: a run that used all three prompts, two of them mismatching,
\* visited every entry of a listing of at least three entries and ended.
C20_Witness ==
  /\ Done
  /\ endkind = "completed"
  /\ prompts = MaxAttempts
  /\ attempts = MaxAttempts - 1
  /\ Len(listing) >= 3
  /\ idx = Len(listing)
  /\ Cardinality(visited) = Len(listing)
=============================================================================
